---- MODULE Spec2Model ----
(***************************************************************************)
(* Session and credential lifecycle of mcp-sunsama.                        *)
(*                                                                         *)
(*   src/src/auth/http.ts               client authentication cache        *)
(*   src/src/session/session-manager.ts session registry                   *)
(*   src/src/transports/http.ts         HTTP transport (POST handler)      *)
(*   src/src/auth/stdio.ts              global (stdio) client              *)
(*   src/src/utils/client-resolver.ts   getClient                          *)
(*   src/unnamed/part_005               setupStdioTransport                *)
(*   src/src/config/session-config.ts   getSessionConfig                   *)
(*                                                                         *)
(* Time is counted in units of 150 000 ms.  Date.now() is the variable     *)
(* clock; it advances by Tick between handlers and may also advance        *)
(* between two Date.now() reads of one synchronous handler.                *)
(* Strings are sequences of one-character strings.  SHA-256 is taken as    *)
(* injective: a cache key is the string that is hashed.                    *)
(***************************************************************************)
EXTENDS Integers, Sequences, FiniteSets, TLC

\* ----------------------------------------------------------------- bounds
MaxInit == 2     \* initialize requests that reach the client cache
MaxTime == 3     \* last clock value
MaxLen == 2      \* characters of an identity and of a secret
MaxTimers == 4   \* setInterval calls

\* ------------------------------------------------- configuration (TTL values)
CLIENT_IDLE_TIMEOUT == 2
CLIENT_MAX_LIFETIME == 3
TRANSPORT_IDLE_TIMEOUT == 2
TRANSPORT_MAX_LIFETIME == 3
\* README: MAX_SESSIONS, the maximum of concurrent sessions (default 100),
\* scaled to the registry of the model: one session
MAX_SESSIONS == 1

VARIABLES
  transportType,         \* "stdio" | "http"   (getTransportConfig)
  envConfigured,         \* SUNSAMA_EMAIL and SUNSAMA_PASSWORD are set
  startup,               \* position of the transport setup
  clock,                 \* Date.now()
  attempts,              \* authentication attempts: promise, SunsamaClient, SessionData
  clientCache,           \* auth/http.ts clientCache: cache key -> attempt (0 = absent)
  authPromises,          \* auth/http.ts authPromises: cache key -> attempt (0 = absent)
  sessions,              \* SessionManager.sessions: session id -> Session
  waiting,               \* initialize requests at `await authenticateHttpRequest`
  initCount,             \* initialize requests that reached the client cache
  lastResponse,          \* the last response the POST handler sent
  authenticationPromise, \* auth/stdio.ts authenticationPromise
  envLogins,             \* logins made by initializeStdioAuth
  globalWaiters,         \* getClient calls awaiting authenticationPromise
  lastResolve,           \* outcome of the last completed getClient call
  closed,                \* transports on which close() has been called
  lastCall,              \* the SessionManager call made by the last step
  authHeader,            \* parseBasicAuth: the credentials a client encodes
  parsed,                \* parseBasicAuth: what it returned
  env,                   \* process.env: the five session settings
  sessionConfig,         \* what getSessionConfig() returned
  timers                 \* the two cleanupTimer variables and the active intervals

vars == <<transportType, envConfigured, startup, clock, attempts, clientCache,
          authPromises, sessions, waiting, initCount, lastResponse,
          authenticationPromise, envLogins, globalWaiters, lastResolve,
          closed, lastCall, authHeader, parsed, env, sessionConfig, timers>>

httpVars == <<attempts, clientCache, authPromises, sessions, waiting,
              initCount, lastResponse>>
globalVars == <<authenticationPromise, envLogins, globalWaiters, lastResolve>>
pureVars == <<authHeader, parsed, env, sessionConfig>>

\* ------------------------------------------------------------ credentials
TOKEN_PREFIX == <<"t", "o", "k", "e", "n", ":">>

\* Authorization headers.  A Basic header carries the decoded payload, a
\* Bearer header the text after 'Bearer ', trimmed.
NoHeader == [scheme |-> "absent", text |-> <<>>]
OtherHeader == [scheme |-> "Digest", text |-> <<"a">>]
Basic(text) == [scheme |-> "Basic", text |-> text]
Bearer(text) == [scheme |-> "Bearer", text |-> text]

Headers ==
  { NoHeader, OtherHeader,
    Basic(<<"a", ":", "x">>), Basic(<<"a", ":", "y">>),
    Basic(<<"t", "o", "k", "e", "n", ":", "x">>),
    Basic(<<"a">>), Basic(<<":", "x">>),
    Bearer(<<"x">>), Bearer(<<>>) }

\* credentials.indexOf(':'), 0 when there is none (1-based otherwise)
ColonIndex(text) ==
  IF \E i \in 1..Len(text) : text[i] = ":"
  THEN CHOOSE i \in 1..Len(text) :
         text[i] = ":" /\ \A j \in 1..(i - 1) : text[j] # ":"
  ELSE 0

\* A parseBasicAuth without the test of line 33: an empty email passes
parseBasicAuth_EmptyEmail(text) ==
  LET colonIndex == ColonIndex(text) IN
  IF colonIndex = 0
  THEN [ok |-> FALSE, email |-> <<>>, password |-> <<>>]
  ELSE [ok |-> TRUE, email |-> SubSeq(text, 1, colonIndex - 1),
        password |-> SubSeq(text, colonIndex + 1, Len(text))]

parseBasicAuth(text) ==
  LET colonIndex == ColonIndex(text) IN
  IF colonIndex = 0
  THEN [ok |-> FALSE, email |-> <<>>, password |-> <<>>]
  ELSE LET email == SubSeq(text, 1, colonIndex - 1)
           password == SubSeq(text, colonIndex + 1, Len(text))
       IN IF email = <<>>
          THEN [ok |-> FALSE, email |-> <<>>, password |-> <<>>]
          ELSE [ok |-> TRUE, email |-> email, password |-> password]

\* ------------------------------------------- Basic credentials on the wire
\* A string is a sequence of code points here: ':' 'a' and U+00E9, and 'C' ')'
\* which are what the two UTF-8 bytes of U+00E9 turn into.
COLON == 58
Chars == {97, COLON, 233}
CharOf(c) ==
  CASE c = COLON -> ":"
    [] c = 97 -> "a"
    [] c = 233 -> "U+00E9"
    [] c = 67 -> "C"
    [] c = 41 -> ")"
    [] OTHER -> "?"
TextOf(codes) == [i \in 1..Len(codes) |-> CharOf(codes[i])]

RECURSIVE Flatten(_)
Flatten(seqs) ==
  IF seqs = <<>> THEN <<>> ELSE Head(seqs) \o Flatten(Tail(seqs))

\* Buffer.from(string): the UTF-8 bytes of a string (code points below U+0800)
Utf8Encode(codes) ==
  Flatten([i \in 1..Len(codes) |->
             IF codes[i] < 128 THEN <<codes[i]>>
             ELSE <<192 + (codes[i] \div 64), 128 + (codes[i] % 64)>>])

\* .toString("base64"): symbols 0..63, PAD for '='
PAD == 64
RECURSIVE Base64Encode(_)
Base64Encode(bytes) ==
  IF bytes = <<>> THEN <<>>
  ELSE IF Len(bytes) = 1
  THEN <<bytes[1] \div 4, (bytes[1] % 4) * 16, PAD, PAD>>
  ELSE IF Len(bytes) = 2
  THEN <<bytes[1] \div 4, (bytes[1] % 4) * 16 + (bytes[2] \div 16),
         (bytes[2] % 16) * 4, PAD>>
  ELSE <<bytes[1] \div 4, (bytes[1] % 4) * 16 + (bytes[2] \div 16),
         (bytes[2] % 16) * 4 + (bytes[3] \div 64), bytes[3] % 64>>
         \o Base64Encode(SubSeq(bytes, 4, Len(bytes)))

\* Buffer.from(base64Credentials, 'base64'): the bytes of the symbols up to
\* the padding
RECURSIVE Base64Decode(_)
Base64Decode(symbols) ==
  IF Len(symbols) < 2 \/ symbols[1] = PAD \/ symbols[2] = PAD THEN <<>>
  ELSE LET b1 == symbols[1] * 4 + (symbols[2] \div 16) IN
       IF Len(symbols) < 3 \/ symbols[3] = PAD THEN <<b1>>
       ELSE LET b2 == (symbols[2] % 16) * 16 + (symbols[3] \div 4) IN
            IF Len(symbols) < 4 \/ symbols[4] = PAD THEN <<b1, b2>>
            ELSE <<b1, b2, (symbols[3] % 4) * 64 + symbols[4]>>
                   \o Base64Decode(SubSeq(symbols, 5, Len(symbols)))

\* .toString('ascii'): one character per byte, the highest bit of the byte
\* unset
ToStringAscii(bytes) == [i \in 1..Len(bytes) |-> bytes[i] % 128]

\* What a client sends for an identity and a secret: 'Basic ' followed by
\* Buffer.from(`${email}:${password}`).toString("base64")
EncodeBasic(email, password) ==
  Base64Encode(Utf8Encode(email \o <<COLON>> \o password))

\* Lines 22-23 of parseBasicAuth: the credentials string of a header
DecodeCredentials(base64Credentials) ==
  TextOf(ToStringAscii(Base64Decode(base64Credentials)))

getCacheKey(email, password) == email \o <<":">> \o password

getTokenCacheKey(token) == TOKEN_PREFIX \o token

\* The header checks of authenticateHttpRequest: does the call get past them
HeaderAccepted(hdr) ==
  CASE hdr.scheme = "Bearer" -> hdr.text # <<>>
    [] hdr.scheme = "Basic" -> parseBasicAuth(hdr.text).ok
    [] OTHER -> FALSE

CacheKeyOf(hdr) ==
  IF hdr.scheme = "Bearer"
  THEN getTokenCacheKey(hdr.text)
  ELSE LET p == parseBasicAuth(hdr.text) IN getCacheKey(p.email, p.password)

Creds == {h \in Headers : HeaderAccepted(h)}

\* Credentials sunsamaClient.login always rejects: a wrong password.  A login
\* with any other credentials succeeds or fails (network, upstream outage).
RejectedUpstream(hdr) == hdr = Basic(<<"a", ":", "y">>)
Keys == {CacheKeyOf(h) : h \in Creds}

\* ------------------------------------------------ session configuration
\* The settings of SessionConfigSchema, the floor of each (z.number().min)
\* and its default, in milliseconds
Settings ==
  {"CLIENT_IDLE_TIMEOUT", "CLIENT_MAX_LIFETIME", "TRANSPORT_IDLE_TIMEOUT",
   "TRANSPORT_MAX_LIFETIME", "CLEANUP_INTERVAL"}
Floor ==
  [CLIENT_IDLE_TIMEOUT |-> 60000, CLIENT_MAX_LIFETIME |-> 300000,
   TRANSPORT_IDLE_TIMEOUT |-> 60000, TRANSPORT_MAX_LIFETIME |-> 300000,
   CLEANUP_INTERVAL |-> 60000]
Default ==
  [CLIENT_IDLE_TIMEOUT |-> <<"6", "0", "0", "0", "0", "0">>,
   CLIENT_MAX_LIFETIME |-> <<"3", "6", "0", "0", "0", "0", "0">>,
   TRANSPORT_IDLE_TIMEOUT |-> <<"9", "0", "0", "0", "0", "0">>,
   TRANSPORT_MAX_LIFETIME |-> <<"7", "2", "0", "0", "0", "0", "0">>,
   CLEANUP_INTERVAL |-> <<"3", "0", "0", "0", "0", "0">>]

\* A variable of process.env: unset, or set to a string
Unset == [set |-> FALSE, text |-> <<>>]
SetTo(text) == [set |-> TRUE, text |-> text]

DigitValue ==
  [c \in {"0", "1", "2", "3", "4", "5", "6", "7", "8", "9"} |->
     CASE c = "0" -> 0 [] c = "1" -> 1 [] c = "2" -> 2 [] c = "3" -> 3
       [] c = "4" -> 4 [] c = "5" -> 5 [] c = "6" -> 6 [] c = "7" -> 7
       [] c = "8" -> 8 [] c = "9" -> 9]
IsDigit(c) == c \in DOMAIN DigitValue

\* The value of the digits of text from position i on, up to the first
\* character that is no digit, continuing the value acc
RECURSIVE DigitsFrom(_, _, _)
DigitsFrom(text, i, acc) ==
  IF i > Len(text) \/ ~IsDigit(text[i]) THEN acc
  ELSE DigitsFrom(text, i + 1, acc * 10 + DigitValue[text[i]])

\* parseInt(val, 10): leading white space, a sign, then digits; NaN when no
\* digit follows
RECURSIVE ParseInt(_)
ParseInt(text) ==
  IF text = <<>> THEN [nan |-> TRUE, value |-> 0]
  ELSE IF Head(text) = " " THEN ParseInt(Tail(text))
  ELSE LET negative == Head(text) = "-"
           digits == IF Head(text) \in {"-", "+"} THEN Tail(text) ELSE text
       IN IF digits = <<>> \/ ~IsDigit(Head(digits))
          THEN [nan |-> TRUE, value |-> 0]
          ELSE [nan |-> FALSE,
                value |-> (IF negative THEN -1 ELSE 1) * DigitsFrom(digits, 1, 0)]

\* A floor that the value has to exceed
MeetsMin_Exclusive(n, floor) == n > floor

\* z.number().min(floor)
MeetsMin(n, floor) == n >= floor

NoConfig == [threw |-> FALSE, config |-> [n \in Settings |-> 0]]

\* SessionConfigSchema.parse(process.env): .default() supplies the string of
\* an unset variable, .transform() applies parseInt, .pipe(z.number().min())
\* rejects NaN and values under the floor; any rejection makes parse throw
getSessionConfig(e) ==
  LET Given(n) == IF e[n].set THEN e[n].text ELSE Default[n]
      Num(n) == ParseInt(Given(n))
      ok == \A n \in Settings : ~Num(n).nan /\ MeetsMin(Num(n).value, Floor[n])
  IN IF ok
     THEN [threw |-> FALSE, config |-> [n \in Settings |-> Num(n).value]]
     ELSE [threw |-> TRUE, config |-> [n \in Settings |-> 0]]

\* ------------------------------------------------------------------ TTLs
isClientValid(sessionData, now) ==
  /\ now - sessionData.lastAccessedAt < CLIENT_IDLE_TIMEOUT
  /\ now - sessionData.createdAt < CLIENT_MAX_LIFETIME

isValid(session, now) ==
  /\ now - session.lastAccessedAt < TRANSPORT_IDLE_TIMEOUT
  /\ now - session.createdAt < TRANSPORT_MAX_LIFETIME

\* The Date.now() of the i-th read of a handler during which the clock
\* advances after read tickAt (0: it does not advance)
ReadAt(i, tickAt) == clock + (IF tickAt # 0 /\ tickAt < i THEN 1 ELSE 0)

\* ------------------------------------------------------- reaper timers
\* The variable cleanupTimer of auth/http.ts (client) and the one of
\* transports/http.ts (session), 0 for null; the intervals setInterval has
\* created and clearInterval has not cleared; the number of setInterval calls
Reapers == {"client", "session"}
NoTimer == 0
NoTimers == [client |-> NoTimer, session |-> NoTimer, intervals |-> {}, count |-> 0]
Interval(id, callback) == [id |-> id, callback |-> callback]

\* if (cleanupTimer) return; cleanupTimer = setInterval(callback, CLEANUP_INTERVAL)
startCleanup(T, reaper) ==
  IF T[reaper] # NoTimer
  THEN T
  ELSE [T EXCEPT ![reaper] = T.count + 1,
                 !.intervals = @ \cup {Interval(T.count + 1, reaper)},
                 !.count = @ + 1]

\* if (cleanupTimer) { clearInterval(cleanupTimer); cleanupTimer = null }
stopCleanup(T, reaper) ==
  IF T[reaper] # NoTimer
  THEN [T EXCEPT ![reaper] = NoTimer,
                 !.intervals = {i \in @ : i.id # T[reaper]}]
  ELSE T

\* A start without the `if (cleanupTimer) return`
startClientCacheCleanup_Unguarded(T) ==
  [T EXCEPT !.client = T.count + 1,
            !.intervals = @ \cup {Interval(T.count + 1, "client")},
            !.count = @ + 1]

startClientCacheCleanup(T) == startCleanup(T, "client")

stopClientCacheCleanup(T) == stopCleanup(T, "client")

startSessionCacheCleanup(T) == startCleanup(T, "session")

stopSessionCacheCleanup(T) == stopCleanup(T, "session")

\* The interval of a reaper is active: its callback will be called
IntervalActive(T, reaper) == \E i \in T.intervals : i.callback = reaper

\* ------------------------------------------------ SessionManager (registry)
SessionIds == 1..MaxInit
NoSession ==
  [transport |-> 0, sessionData |-> 0, createdAt |-> 0, lastAccessedAt |-> 0]

hasSession(S, sessionId, now) ==
  S[sessionId] # NoSession /\ isValid(S[sessionId], now)

\* getTransport / getSessionData / getSession: touch, then validate, then
\* delete when invalid.  tTouch is the Date.now() stored, tCheck the one
\* isValid reads.  A lookup that validates before it touches:
Lookup_ValidatesFirst(S, sessionId, tTouch, tCheck) ==
  IF S[sessionId] = NoSession
  THEN [sessions |-> S, found |-> FALSE, transport |-> 0, sessionData |-> 0]
  ELSE IF ~isValid(S[sessionId], tCheck)
  THEN [sessions |-> [S EXCEPT ![sessionId] = NoSession],
        found |-> FALSE, transport |-> 0, sessionData |-> 0]
  ELSE [sessions |-> [S EXCEPT ![sessionId].lastAccessedAt = tTouch],
        found |-> TRUE, transport |-> S[sessionId].transport,
        sessionData |-> S[sessionId].sessionData]

Lookup(S, sessionId, tTouch, tCheck) ==
  IF S[sessionId] = NoSession
  THEN [sessions |-> S, found |-> FALSE, transport |-> 0, sessionData |-> 0]
  ELSE LET session == [S[sessionId] EXCEPT !.lastAccessedAt = tTouch] IN
       IF ~isValid(session, tCheck)
       THEN [sessions |-> [S EXCEPT ![sessionId] = NoSession],
             found |-> FALSE, transport |-> 0, sessionData |-> 0]
       ELSE [sessions |-> [S EXCEPT ![sessionId] = session],
             found |-> TRUE, transport |-> session.transport,
             sessionData |-> session.sessionData]

getTransport(S, sessionId, tTouch, tCheck) == Lookup(S, sessionId, tTouch, tCheck)

getSessionData(S, sessionId, tTouch, tCheck) == Lookup(S, sessionId, tTouch, tCheck)

getSession(S, sessionId, tTouch, tCheck) == Lookup(S, sessionId, tTouch, tCheck)

\* A createSession that keeps the entry an id already has
createSession_KeepsExisting(S, sessionId, transport, sessionData, now) ==
  IF S[sessionId] # NoSession
  THEN S
  ELSE [S EXCEPT ![sessionId] =
          [transport |-> transport, sessionData |-> sessionData,
           createdAt |-> now, lastAccessedAt |-> now]]

createSession(S, sessionId, transport, sessionData, now) ==
  [S EXCEPT ![sessionId] =
     [transport |-> transport, sessionData |-> sessionData,
      createdAt |-> now, lastAccessedAt |-> now]]

\* The record of a SessionManager call: the session id it was given, whether
\* it returned a value (true, for the boolean ones), the transport and the
\* session data returned (passed, for createSession), and whether the id was
\* a valid session (hasSession) at the instant the call checked validity;
\* for the two sweeps, whether the sweep returned and how many close() errors
\* it caught and logged
NoCall ==
  [op |-> "none", id |-> 0, result |-> FALSE, transport |-> 0,
   sessionData |-> 0, wasValid |-> FALSE, errors |-> 0]
Call(op, id, result, transport, sessionData, wasValid) ==
  [op |-> op, id |-> id, result |-> result, transport |-> transport,
   sessionData |-> sessionData, wasValid |-> wasValid, errors |-> 0]

\* A removeSession that empties the map
removeSession_Clear(S, sessionId) ==
  [sessions |-> [s \in SessionIds |-> NoSession],
   removed |-> S[sessionId] # NoSession]

removeSession(S, sessionId) ==
  [sessions |-> [S EXCEPT ![sessionId] = NoSession],
   removed |-> S[sessionId] # NoSession]

getSessionCount(S) == Cardinality({s \in SessionIds : S[s] # NoSession})

\* A close() whose exception leaves the loop that called it
TryClose_Uncaught(cl, transport, throws) ==
  [closed |-> cl \cup {transport}, error |-> throws]

\* try { session.transport.close() } catch (err) { console.error(...) }:
\* close() has been called whether it throws or not, and the error stops here.
\* (The transport's onclose removes the session registered under its id, the
\* entry the callers below delete next anyway.)
TryClose(cl, transport, throws) ==
  [closed |-> cl \cup {transport}, error |-> FALSE]

\* cleanupAll: close every transport, then sessions.clear()
RECURSIVE cleanupAllFrom(_, _, _, _)
cleanupAllFrom(S, cl, i, throwers) ==
  IF i > MaxInit
  THEN [sessions |-> [s \in SessionIds |-> NoSession], closed |-> cl,
        threw |-> FALSE]
  ELSE IF S[i] = NoSession
  THEN cleanupAllFrom(S, cl, i + 1, throwers)
  ELSE LET c == TryClose(cl, S[i].transport, S[i].transport \in throwers) IN
       IF c.error
       THEN [sessions |-> S, closed |-> c.closed, threw |-> TRUE]
       ELSE cleanupAllFrom(S, c.closed, i + 1, throwers)

cleanupAll(S, cl, throwers) == cleanupAllFrom(S, cl, 1, throwers)

\* cleanupExpired over the entries from session id i on; throwers are the
\* transports whose close() throws; isValid reads Date.now() for each entry
RECURSIVE cleanupExpiredFrom(_, _, _, _, _)
cleanupExpiredFrom(S, cl, i, throwers, tickAt) ==
  IF i > MaxInit
  THEN [sessions |-> S, closed |-> cl, threw |-> FALSE]
  ELSE IF S[i] = NoSession \/ isValid(S[i], ReadAt(i, tickAt))
  THEN cleanupExpiredFrom(S, cl, i + 1, throwers, tickAt)
  ELSE LET c == TryClose(cl, S[i].transport, S[i].transport \in throwers) IN
       IF c.error
       THEN [sessions |-> S, closed |-> c.closed, threw |-> TRUE]
       ELSE cleanupExpiredFrom([S EXCEPT ![i] = NoSession], c.closed, i + 1,
                               throwers, tickAt)

\* A sweep that does not test validity
cleanupExpired_All(S, cl, throwers, tickAt) == cleanupAll(S, cl, throwers)

cleanupExpired(S, cl, throwers, tickAt) ==
  cleanupExpiredFrom(S, cl, 1, throwers, tickAt)

\* ------------------------------------------- client authentication cache
\* A lookup that never finds the registered promise
HasPending_Never(ap, key) == FALSE

\* authPromises.has(cacheKey)
HasPending(ap, key) == ap[key] # 0

\* A finally block that leaves the promise registered
FinallyDelete_Skipped(ap, key) == ap

\* A finally block that empties the map
FinallyDelete_Clear(ap, key) == [k \in Keys |-> 0]

\* authPromises.delete(cacheKey) of the finally block
FinallyDelete(ap, key) == [ap EXCEPT ![key] = 0]

\* An eviction that drops the entry without logging its client out
Logout_Skipped(att, a) == att

\* sunsamaClient.logout() of an evicted entry (errors are swallowed)
Logout(att, a) == [att EXCEPT ![a].loggedOut = TRUE]

\* A new SunsamaClient with the promise of its authentication and, once that
\* is fulfilled, its SessionData {sunsamaClient, email, createdAt, lastAccessedAt}
NewAttempt(hdr, key, now, state) ==
  [key |-> key, hdr |-> hdr, state |-> state, createdAt |-> now,
   lastAccessedAt |-> now, loggedOut |-> FALSE]

\* The synchronous part of authenticateHttpRequest for an accepted header:
\* now is the Date.now() of line 151, tCheck the one isClientValid reads.
AuthCall(att, cc, ap, hdr, now, tCheck) ==
  LET key == CacheKeyOf(hdr) IN
  IF HasPending(ap, key)
  THEN [attempts |-> att, clientCache |-> cc, authPromises |-> ap,
        attempt |-> ap[key], path |-> "pending"]
  ELSE IF cc[key] # 0 /\ isClientValid(att[cc[key]], tCheck)
  THEN [attempts |-> [att EXCEPT ![cc[key]].lastAccessedAt = now],
        clientCache |-> cc, authPromises |-> ap,
        attempt |-> cc[key], path |-> "hit"]
  ELSE LET att1 == IF cc[key] # 0 THEN Logout(att, cc[key]) ELSE att
           cc1 == [cc EXCEPT ![key] = 0]
           id == Len(att) + 1
       IN IF hdr.scheme = "Bearer"
          THEN \* the async body has no await: it runs to its end, finally
               \* included, before authPromises.set
               [attempts |-> Append(att1, NewAttempt(hdr, key, now, "fulfilled")),
                clientCache |-> [cc1 EXCEPT ![key] = id],
                authPromises |-> [FinallyDelete(ap, key) EXCEPT ![key] = id],
                attempt |-> id, path |-> "new"]
          ELSE \* the async body stops at await login(); then authPromises.set
               [attempts |-> Append(att1, NewAttempt(hdr, key, now, "pending")),
                clientCache |-> cc1,
                authPromises |-> [ap EXCEPT ![key] = id],
                attempt |-> id, path |-> "new"]

\* Completion of sunsamaClient.login for attempt a
LoginSettle(att, cc, ap, a, ok) ==
  LET key == att[a].key IN
  [attempts |-> [att EXCEPT ![a].state = IF ok THEN "fulfilled" ELSE "rejected"],
   clientCache |-> IF ok THEN [cc EXCEPT ![key] = a] ELSE cc,
   authPromises |-> FinallyDelete(ap, key)]

\* A logout() whose exception leaves the loop that called it
TryLogout_Uncaught(att, a, throws) ==
  [attempts |-> Logout(att, a), error |-> throws, caught |-> 0]

\* try { sessionData.sunsamaClient.logout() } catch (err) { console.error(...) }:
\* logout() has been called whether it throws or not, and the error stops here
TryLogout(att, a, throws) ==
  [attempts |-> Logout(att, a), error |-> FALSE,
   caught |-> IF throws THEN 1 ELSE 0]

\* cleanupAllClients: logout() of every cached client, then
\* clientCache.clear(); rest are the keys the loop has not visited yet,
\* throwers the attempts whose client throws in logout(), and errors the
\* number of errors caught and logged so far
RECURSIVE cleanupAllClientsFrom(_, _, _, _, _)
cleanupAllClientsFrom(att, cc, rest, throwers, errors) ==
  IF rest = {}
  THEN [attempts |-> att, clientCache |-> [k \in Keys |-> 0], threw |-> FALSE,
        errors |-> errors]
  ELSE LET k == CHOOSE x \in rest : TRUE
           r == TryLogout(att, cc[k], cc[k] \in throwers)
       IN IF r.error
          THEN [attempts |-> r.attempts, clientCache |-> cc, threw |-> TRUE,
                errors |-> errors]
          ELSE cleanupAllClientsFrom(r.attempts, cc, rest \ {k}, throwers,
                                     errors + r.caught)

cleanupAllClients(att, cc, throwers) ==
  cleanupAllClientsFrom(att, cc, {k \in Keys : cc[k] # 0}, throwers, 0)

\* cleanupExpiredClients
ExpiredKeys(att, cc, now) ==
  {k \in Keys : cc[k] # 0 /\ ~isClientValid(att[cc[k]], now)}

\* A sweep that logs the expired clients out and keeps their entries
cleanupExpiredClients_KeepsEntries(att, cc, now) ==
  LET gone == ExpiredKeys(att, cc, now) IN
  [attempts |-> [a \in DOMAIN att |->
                   IF \E k \in gone : cc[k] = a
                   THEN [att[a] EXCEPT !.loggedOut = TRUE] ELSE att[a]],
   clientCache |-> cc]

cleanupExpiredClients(att, cc, now) ==
  LET gone == ExpiredKeys(att, cc, now) IN
  [attempts |-> [a \in DOMAIN att |->
                   IF \E k \in gone : cc[k] = a
                   THEN [att[a] EXCEPT !.loggedOut = TRUE] ELSE att[a]],
   clientCache |-> [k \in Keys |-> IF k \in gone THEN 0 ELSE cc[k]]]

\* ------------------------------------------------------- POST handler
NoAttempt == 0
NoResponse == [branch |-> "none", status |-> 0, attempt |-> NoAttempt, hdr |-> NoHeader]
\* A response: the branch that sent it, its HTTP status, the attempt whose
\* entry served it, and the credentials of the request (NoHeader when its
\* Authorization header is absent or not one authenticateHttpRequest accepts)
Response(branch, status, attempt, hdr) ==
  [branch |-> branch, status |-> status, attempt |-> attempt,
   hdr |-> IF HeaderAccepted(hdr) THEN hdr ELSE NoHeader]

\* An initialize request suspended at `await authenticateHttpRequest(...)`
Waiting(id, hdr, attempt) == [id |-> id, hdr |-> hdr, attempt |-> attempt]

\* The branch the handler takes: the mcp-session-id header (0: none) names a
\* valid session; it names none; there is no session id and the body is an
\* initialize request; anything else.  A handler that lacks the second branch:
Branch_StaleFallsThrough(S, sid, init, now) ==
  IF sid # 0 /\ hasSession(S, sid, now) THEN "reuse"
  ELSE IF init THEN "initialize"
  ELSE "invalid"

Branch(S, sid, init, now) ==
  IF sid # 0 /\ hasSession(S, sid, now) THEN "reuse"
  ELSE IF sid # 0 /\ ~hasSession(S, sid, now) THEN "expired"
  ELSE IF sid = 0 /\ init THEN "initialize"
  ELSE "invalid"

\* What a request leaves in lastCall when its session id was not that of a
\* valid session: the failed hasSession(sid), if it carried one
SessionIdCall(sid) ==
  IF sid = 0 THEN NoCall ELSE Call("POST", sid, FALSE, 0, 0, FALSE)

\* The JSON-RPC error of a response: code and message (0 and "" when the
\* response is the transport's own)
ErrorCode(response) ==
  IF response.status \in {400, 401, 404} THEN -32000 ELSE 0
ErrorMessage(response) ==
  CASE response.status = 404 -> "Session expired or invalid"
    [] response.status = 400 -> "Bad Request: No valid session ID provided"
    [] response.status = 401 -> "Authentication failed"
    [] OTHER -> ""

\* app.post(endpoint).  The handler runs to its response, or to
\* `await authenticateHttpRequest` on a login that is still pending.  After an
\* authentication that is already settled the rest of the handler (new
\* transport, server.connect, handleRequest, onsessioninitialized ->
\* createSession) runs in the microtasks that follow, ahead of every other
\* callback.  The number of the initialize request stands for randomUUID().
Post(hdr, sid, init, tickAt) ==
  /\ transportType = "http"
  /\ startup = "running"
  /\ tickAt # 0 => clock < MaxTime
  /\ clock' = clock + (IF tickAt # 0 THEN 1 ELSE 0)
  /\ IF Branch(sessions, sid, init, ReadAt(1, tickAt)) = "reuse"
     THEN \* reuse: getTransport, then getSessionData, then handleRequest;
          \* handleRequest on an undefined transport throws -> catch -> 401
          LET t == getTransport(sessions, sid, ReadAt(2, tickAt), ReadAt(3, tickAt))
              d == getSessionData(t.sessions, sid, ReadAt(4, tickAt), ReadAt(5, tickAt))
          IN /\ sessions' = d.sessions
             /\ lastResponse' = Response("reuse", IF t.found THEN 200 ELSE 401,
                                         NoAttempt, hdr)
             /\ lastCall' = Call("POST", sid, t.found, t.transport, d.sessionData, TRUE)
             /\ UNCHANGED <<attempts, clientCache, authPromises, waiting, initCount>>
     ELSE IF Branch(sessions, sid, init, ReadAt(1, tickAt)) = "expired"
     THEN /\ tickAt = 0
          /\ lastResponse' = Response("expired", 404, NoAttempt, hdr)
          /\ lastCall' = SessionIdCall(sid)
          /\ UNCHANGED <<attempts, clientCache, authPromises, sessions, waiting, initCount>>
     ELSE IF Branch(sessions, sid, init, ReadAt(1, tickAt)) = "initialize"
     THEN IF ~HeaderAccepted(hdr)
          THEN \* authenticateHttpRequest throws -> catch -> 401
               /\ tickAt = 0
               /\ lastResponse' = Response("initialize", 401, NoAttempt, hdr)
               /\ lastCall' = SessionIdCall(sid)
               /\ UNCHANGED <<attempts, clientCache, authPromises, sessions, waiting, initCount>>
          ELSE LET n == initCount + 1
                   r == AuthCall(attempts, clientCache, authPromises, hdr,
                                 ReadAt(1, tickAt), ReadAt(2, tickAt))
               IN /\ initCount < MaxInit
                  /\ tickAt \in {0, 1}
                  /\ tickAt = 1 => ~HasPending(authPromises, CacheKeyOf(hdr))
                                   /\ clientCache[CacheKeyOf(hdr)] # 0
                  /\ initCount' = n
                  /\ attempts' = r.attempts
                  /\ clientCache' = r.clientCache
                  /\ authPromises' = r.authPromises
                  /\ lastCall' = SessionIdCall(sid)
                  /\ IF r.attempts[r.attempt].state = "pending"
                     THEN /\ waiting' = waiting \cup {Waiting(n, hdr, r.attempt)}
                          /\ UNCHANGED <<sessions, lastResponse>>
                     ELSE /\ sessions' = createSession(sessions, n, n, r.attempt, clock')
                          /\ lastResponse' = Response("initialize", 200, r.attempt, hdr)
                          /\ UNCHANGED waiting
     ELSE /\ tickAt = 0
          /\ lastResponse' = Response("invalid", 400, NoAttempt, hdr)
          /\ lastCall' = SessionIdCall(sid)
          /\ UNCHANGED <<attempts, clientCache, authPromises, sessions, waiting, initCount>>
  /\ UNCHANGED <<transportType, envConfigured, startup, closed>>
  /\ UNCHANGED globalVars
  /\ UNCHANGED pureVars
  /\ UNCHANGED timers

\* A transport whose onclose was never assigned
OnClose_Unset(S, sid) == S

\* transport.onclose of the transport whose sessionId is sid:
\* sessionManager.removeSession(sid)
OnClose(S, sid) == removeSession(S, sid).sessions

\* app.delete(endpoint): 400 without the id of a valid session; otherwise
\* getSession and, when it returns the session, transport.handleRequest,
\* which terminates the session: the transport closes and signals it through
\* onclose.  When getSession returns undefined the handler sends nothing.
Delete(sid, tickAt) ==
  /\ transportType = "http"
  /\ startup = "running"
  /\ tickAt # 0 => clock < MaxTime /\ sid # 0 /\ sessions[sid] # NoSession
  /\ clock' = clock + (IF tickAt # 0 THEN 1 ELSE 0)
  /\ IF sid = 0 \/ ~hasSession(sessions, sid, ReadAt(1, tickAt))
     THEN /\ tickAt = 0
          /\ lastCall' = Call("DELETE", sid, FALSE, 0, 0, FALSE)
          /\ UNCHANGED <<sessions, closed>>
     ELSE LET r == getSession(sessions, sid, ReadAt(2, tickAt), ReadAt(3, tickAt))
          IN /\ lastCall' = Call("DELETE", sid, r.found, r.transport,
                                 r.sessionData, TRUE)
             /\ IF r.found
                THEN /\ closed' = closed \cup {r.transport}
                     /\ sessions' = OnClose(r.sessions, sid)
                ELSE /\ sessions' = r.sessions
                     /\ UNCHANGED closed
  /\ UNCHANGED <<transportType, envConfigured, startup, attempts, clientCache,
                 authPromises, waiting, initCount, lastResponse>>
  /\ UNCHANGED globalVars
  /\ UNCHANGED pureVars
  /\ UNCHANGED timers

\* A shutdown handler that returns without process.exit
ProcessExit_Skipped(st) == st

\* process.exit(0)
ProcessExit(st) == "exited"

\* The handler of SIGINT and SIGTERM: stopClientCacheCleanup and
\* stopSessionCacheCleanup, sessionManager.cleanupAll(), cleanupAllClients(),
\* process.exit(0); it has no await, so it runs to the exit in one piece.
\* throwers are the transports whose close() throws, failing the attempts
\* whose client throws in logout()
Shutdown(throwers, failing) ==
  /\ transportType = "http"
  /\ startup = "running"
  /\ throwers \subseteq {sessions[s].transport : s \in SessionIds} \ {0}
  /\ failing \subseteq {clientCache[k] : k \in Keys} \ {0}
  /\ LET r == cleanupAll(sessions, closed, throwers)
         c == cleanupAllClients(attempts, clientCache, failing)
         done == ~r.threw /\ ~c.threw
     IN /\ sessions' = r.sessions
        /\ closed' = r.closed
        /\ attempts' = IF r.threw THEN attempts ELSE c.attempts
        /\ clientCache' = IF r.threw THEN clientCache ELSE c.clientCache
        /\ startup' = IF done THEN ProcessExit(startup) ELSE startup
        /\ lastCall' = [Call("shutdown", 0, done, 0, 0, FALSE)
                         EXCEPT !.errors = Cardinality((r.closed \ closed) \cap throwers)]
  /\ timers' = stopSessionCacheCleanup(stopClientCacheCleanup(timers))
  /\ UNCHANGED <<transportType, envConfigured, clock, authPromises, waiting,
                 initCount, lastResponse>>
  /\ UNCHANGED globalVars
  /\ UNCHANGED pureVars

\* A settlement that resumes every suspended request
WaitersOf_All(W, a) == W

\* The requests awaiting attempt a, and the one that arrived last
WaitersOf(W, a) == {w \in W : w.attempt = a}
LastWaiter(W, a) ==
  CHOOSE w \in WaitersOf(W, a) : \A v \in WaitersOf(W, a) : v.id <= w.id

\* sunsamaClient.login of the pending attempt a resolves (ok) or rejects; the
\* requests awaiting it resume: a session each, or the catch block's 401 each.
LoginComplete(a, ok) ==
  /\ startup = "running"
  /\ a \in DOMAIN attempts
  /\ attempts[a].state = "pending"
  /\ ok => ~RejectedUpstream(attempts[a].hdr)
  /\ LET r == LoginSettle(attempts, clientCache, authPromises, a, ok)
     IN /\ attempts' = r.attempts
        /\ clientCache' = r.clientCache
        /\ authPromises' = r.authPromises
  /\ waiting' = waiting \ WaitersOf(waiting, a)
  /\ sessions' = [s \in SessionIds |->
                    IF ok /\ \E w \in WaitersOf(waiting, a) : w.id = s
                    THEN createSession(sessions, s, s, a, clock)[s]
                    ELSE sessions[s]]
  /\ lastResponse' = Response("initialize", IF ok THEN 200 ELSE 401, a,
                              LastWaiter(waiting, a).hdr)
  /\ lastCall' = NoCall
  /\ UNCHANGED <<transportType, envConfigured, startup, clock, initCount, closed>>
  /\ UNCHANGED globalVars
  /\ UNCHANGED pureVars
  /\ UNCHANGED timers

\* The interval callback of startClientCacheCleanup
ClientReaper ==
  /\ transportType = "http"
  /\ startup = "running"
  /\ IntervalActive(timers, "client")
  /\ LET r == cleanupExpiredClients(attempts, clientCache, clock)
     IN /\ attempts' = r.attempts
        /\ clientCache' = r.clientCache
  /\ lastCall' = NoCall
  /\ UNCHANGED <<transportType, envConfigured, startup, clock, authPromises,
                 sessions, waiting, initCount, lastResponse, closed>>
  /\ UNCHANGED globalVars
  /\ UNCHANGED pureVars
  /\ UNCHANGED timers

Tick ==
  /\ startup = "running"
  /\ clock < MaxTime
  /\ clock' = clock + 1
  /\ lastCall' = NoCall
  /\ UNCHANGED <<transportType, envConfigured, startup, closed>>
  /\ UNCHANGED httpVars
  /\ UNCHANGED globalVars
  /\ UNCHANGED pureVars
  /\ UNCHANGED timers

\* ------------------------------------------------------------ startup
SetupHttpTransport ==
  /\ transportType = "http"
  /\ startup = "starting"
  /\ startup' = "running"
  /\ timers' = startSessionCacheCleanup(startClientCacheCleanup(timers))
  /\ lastCall' = NoCall
  /\ UNCHANGED <<transportType, envConfigured, clock, closed>>
  /\ UNCHANGED httpVars
  /\ UNCHANGED globalVars
  /\ UNCHANGED pureVars

\* initializeStdioAuth up to `await sunsamaClient.login(...)`: "throws" when
\* the credentials are not configured, otherwise one more login is under way
initializeStdioAuth(configured, logins) ==
  IF ~configured
  THEN [threw |-> TRUE, logins |-> logins, client |-> 0]
  ELSE [threw |-> FALSE, logins |-> logins + 1, client |-> logins + 1]

\* setupStdioTransport: `await initializeStdioAuth()`; the client it returns
\* is not kept
SetupStdioTransport ==
  /\ transportType = "stdio"
  /\ startup = "starting"
  /\ LET r == initializeStdioAuth(envConfigured, envLogins)
     IN /\ startup' = IF r.threw THEN "failed" ELSE "authenticating"
        /\ envLogins' = r.logins
  /\ lastCall' = NoCall
  /\ UNCHANGED <<transportType, envConfigured, clock, authenticationPromise,
                 globalWaiters, lastResolve, closed>>
  /\ UNCHANGED httpVars
  /\ UNCHANGED pureVars
  /\ UNCHANGED timers

\* The startup login settles; on success the stdio transport is connected
StdioLoginComplete(ok) ==
  /\ startup = "authenticating"
  /\ startup' = IF ok THEN "running" ELSE "failed"
  /\ lastCall' = NoCall
  /\ UNCHANGED <<transportType, envConfigured, clock, closed>>
  /\ UNCHANGED httpVars
  /\ UNCHANGED globalVars
  /\ UNCHANGED pureVars
  /\ UNCHANGED timers

\* --------------------------------------------------------- client resolver
NoPromise == [state |-> "null", client |-> 0]
NoResolve == [ctx |-> "none", out |-> "none", client |-> 0]
Resolved(ctx, out, client) == [ctx |-> ctx, out |-> out, client |-> client]

\* The session argument of getClient: absent, {id}, or {sunsamaClient}
Contexts ==
  {[kind |-> "none", ref |-> 0]}
    \cup {[kind |-> "id", ref |-> s] : s \in SessionIds}
    \cup {[kind |-> "client", ref |-> a] : a \in 1..MaxInit}

\* A getGlobalSunsamaClient guarded by the client, not by the promise
getGlobalSunsamaClient_Flag(promise, configured, logins) ==
  IF promise.state # "fulfilled"
  THEN LET r == initializeStdioAuth(configured, logins) IN
       [promise |-> IF r.threw THEN [state |-> "rejected", client |-> 0]
                    ELSE [state |-> "pending", client |-> r.client],
        logins |-> r.logins]
  ELSE [promise |-> promise, logins |-> logins]

\* A getGlobalSunsamaClient that forgets a rejected promise
getGlobalSunsamaClient_RetryRejected(promise, configured, logins) ==
  IF promise.state \in {"null", "rejected"}
  THEN LET r == initializeStdioAuth(configured, logins) IN
       [promise |-> IF r.threw THEN [state |-> "rejected", client |-> 0]
                    ELSE [state |-> "pending", client |-> r.client],
        logins |-> r.logins]
  ELSE [promise |-> promise, logins |-> logins]

\* getGlobalSunsamaClient: the promise it returns, created on first use
getGlobalSunsamaClient(promise, configured, logins) ==
  IF promise.state = "null"
  THEN LET r == initializeStdioAuth(configured, logins) IN
       [promise |-> IF r.threw THEN [state |-> "rejected", client |-> 0]
                    ELSE [state |-> "pending", client |-> r.client],
        logins |-> r.logins]
  ELSE [promise |-> promise, logins |-> logins]

\* What an awaiting caller gets from the settled global promise
GlobalOutcome(ctx, promise) ==
  IF promise.state = "fulfilled"
  THEN Resolved(ctx, "global", promise.client)
  ELSE Resolved(ctx, "error", 0)

\* getClient(session) of a tool call
GetClient(ctx, tickAt) ==
  /\ startup = "running"
  /\ transportType = "stdio" => ctx.kind = "none"
  /\ ctx.kind = "client" =>
       ctx.ref \in DOMAIN attempts /\ attempts[ctx.ref].state = "fulfilled"
  /\ tickAt # 0 => clock < MaxTime /\ ctx.kind = "id" /\ sessions[ctx.ref] # NoSession
  /\ clock' = clock + tickAt
  /\ LET d == IF ctx.kind = "id"
              THEN getSessionData(sessions, ctx.ref, clock, clock + tickAt)
              ELSE [sessions |-> sessions, found |-> FALSE, transport |-> 0,
                    sessionData |-> 0]
         g == getGlobalSunsamaClient(authenticationPromise, envConfigured, envLogins)
     IN /\ sessions' = d.sessions
        /\ lastCall' = IF ctx.kind = "id"
                       THEN Call("getSessionData", ctx.ref, d.found, 0, d.sessionData,
                                 hasSession(sessions, ctx.ref, clock + tickAt))
                       ELSE IF ctx.kind = "none"
                       THEN \* whether this call created authenticationPromise
                            Call("getGlobalSunsamaClient", 0,
                                 authenticationPromise = NoPromise, 0, 0, FALSE)
                       ELSE NoCall
        /\ IF ctx.kind = "client"
           THEN /\ lastResolve' = Resolved(ctx.kind, "session", ctx.ref)
                /\ UNCHANGED <<authenticationPromise, envLogins, globalWaiters>>
           ELSE IF d.found
           THEN /\ lastResolve' = Resolved(ctx.kind, "session", d.sessionData)
                /\ UNCHANGED <<authenticationPromise, envLogins, globalWaiters>>
           ELSE \* fallback: the global client
                /\ authenticationPromise' = g.promise
                /\ envLogins' = g.logins
                /\ IF g.promise.state = "pending"
                   THEN /\ globalWaiters' = globalWaiters \cup {ctx.kind}
                        /\ UNCHANGED lastResolve
                   ELSE /\ lastResolve' = GlobalOutcome(ctx.kind, g.promise)
                        /\ UNCHANGED globalWaiters
  /\ UNCHANGED <<transportType, envConfigured, startup, attempts, clientCache,
                 authPromises, waiting, initCount, lastResponse, closed>>
  /\ UNCHANGED pureVars
  /\ UNCHANGED timers

\* The login started by getGlobalSunsamaClient settles; its awaiting callers
\* resume with the client or with the error
GlobalAuthDone(ok) ==
  /\ authenticationPromise.state = "pending"
  /\ authenticationPromise' =
       [authenticationPromise EXCEPT !.state = IF ok THEN "fulfilled" ELSE "rejected"]
  /\ globalWaiters' = {}
  /\ \E ctx \in globalWaiters :
       lastResolve' = GlobalOutcome(ctx, authenticationPromise')
  /\ lastCall' = NoCall
  /\ UNCHANGED <<transportType, envConfigured, startup, clock, envLogins, closed>>
  /\ UNCHANGED httpVars
  /\ UNCHANGED pureVars
  /\ UNCHANGED timers

\* ------------------------------------------ calls of the SessionManager
\* The registry driven through its methods, as its callers and its unit tests
\* drive it.  Every createSession brings the transport of one more initialize
\* request; sessionId stands for the UUID that transport generated.
GetOps == {"getSession", "getTransport", "getSessionData"}

\* The session ids the calls are made with, and the transports registered
RegistryIds == {1, 2}
Registered(S) == {S[s].transport : s \in {x \in SessionIds : S[x] # NoSession}}

CallCreateSession(sessionId, sessionData) ==
  /\ startup = "running"
  /\ initCount < MaxInit
  /\ sessionData <= initCount + 1
  /\ initCount' = initCount + 1
  /\ sessions' = createSession(sessions, sessionId, initCount + 1, sessionData, clock)
  /\ lastCall' = Call("createSession", sessionId, TRUE, initCount + 1, sessionData,
                      hasSession(sessions, sessionId, clock))
  /\ UNCHANGED <<transportType, envConfigured, startup, clock, attempts,
                 clientCache, authPromises, waiting, lastResponse, closed>>
  /\ UNCHANGED globalVars
  /\ UNCHANGED pureVars
  /\ UNCHANGED timers

CallGet(op, sessionId, tickAt) ==
  /\ startup = "running"
  /\ tickAt # 0 => clock < MaxTime /\ sessions[sessionId] # NoSession
  /\ clock' = clock + tickAt
  /\ LET r == CASE op = "getSession" ->
                   getSession(sessions, sessionId, clock, clock + tickAt)
              [] op = "getTransport" ->
                   getTransport(sessions, sessionId, clock, clock + tickAt)
              [] op = "getSessionData" ->
                   getSessionData(sessions, sessionId, clock, clock + tickAt)
     IN /\ sessions' = r.sessions
        /\ lastCall' = Call(op, sessionId, r.found,
                            IF op = "getSessionData" THEN 0 ELSE r.transport,
                            IF op = "getTransport" THEN 0 ELSE r.sessionData,
                            hasSession(sessions, sessionId, clock + tickAt))
  /\ UNCHANGED <<transportType, envConfigured, startup, attempts, clientCache,
                 authPromises, waiting, initCount, lastResponse, closed>>
  /\ UNCHANGED globalVars
  /\ UNCHANGED pureVars
  /\ UNCHANGED timers

CallHasSession(sessionId) ==
  /\ startup = "running"
  /\ lastCall' = Call("hasSession", sessionId, hasSession(sessions, sessionId, clock),
                      0, 0, hasSession(sessions, sessionId, clock))
  /\ UNCHANGED <<transportType, envConfigured, startup, clock, closed>>
  /\ UNCHANGED httpVars
  /\ UNCHANGED globalVars
  /\ UNCHANGED pureVars
  /\ UNCHANGED timers

CallRemoveSession(sessionId) ==
  /\ startup = "running"
  /\ LET r == removeSession(sessions, sessionId)
     IN /\ sessions' = r.sessions
        /\ lastCall' = Call("removeSession", sessionId, r.removed, 0, 0,
                            hasSession(sessions, sessionId, clock))
  /\ UNCHANGED <<transportType, envConfigured, startup, clock, attempts,
                 clientCache, authPromises, waiting, initCount, lastResponse, closed>>
  /\ UNCHANGED globalVars
  /\ UNCHANGED pureVars
  /\ UNCHANGED timers

\* sessionManager.cleanupExpired()
CallCleanupExpired(throwers, tickAt) ==
  /\ startup = "running"
  /\ throwers \subseteq Registered(sessions)
  /\ tickAt # 0 => /\ clock < MaxTime
                   /\ \E s \in SessionIds : s > tickAt /\ sessions[s] # NoSession
  /\ clock' = clock + (IF tickAt # 0 THEN 1 ELSE 0)
  /\ LET r == cleanupExpired(sessions, closed, throwers, tickAt)
     IN /\ sessions' = r.sessions
        /\ closed' = r.closed
        /\ lastCall' = [Call("cleanupExpired", 0, ~r.threw, 0, 0, FALSE)
                         EXCEPT !.errors = Cardinality((r.closed \ closed) \cap throwers)]
  /\ UNCHANGED <<transportType, envConfigured, startup, attempts, clientCache,
                 authPromises, waiting, initCount, lastResponse>>
  /\ UNCHANGED globalVars
  /\ UNCHANGED pureVars
  /\ UNCHANGED timers

\* Shutdown: sessionManager.cleanupAll()
CallCleanupAll(throwers) ==
  /\ startup = "running"
  /\ throwers \subseteq Registered(sessions)
  /\ LET r == cleanupAll(sessions, closed, throwers)
     IN /\ sessions' = r.sessions
        /\ closed' = r.closed
        /\ lastCall' = [Call("cleanupAll", 0, ~r.threw, 0, 0, FALSE)
                         EXCEPT !.errors = Cardinality((r.closed \ closed) \cap throwers)]
  /\ UNCHANGED <<transportType, envConfigured, startup, clock, attempts,
                 clientCache, authPromises, waiting, initCount, lastResponse>>
  /\ UNCHANGED globalVars
  /\ UNCHANGED pureVars
  /\ UNCHANGED timers

\* cleanupAllClients() with the clients of failing throwing in logout()
CallCleanupAllClients(failing) ==
  /\ startup = "running"
  /\ failing \subseteq {clientCache[k] : k \in Keys} \ {0}
  /\ LET c == cleanupAllClients(attempts, clientCache, failing)
     IN /\ attempts' = c.attempts
        /\ clientCache' = c.clientCache
        /\ lastCall' = [Call("cleanupAllClients", 0, ~c.threw, 0, 0, FALSE)
                         EXCEPT !.errors = c.errors]
  /\ UNCHANGED <<transportType, envConfigured, startup, clock, authPromises,
                 sessions, waiting, initCount, lastResponse, closed>>
  /\ UNCHANGED globalVars
  /\ UNCHANGED pureVars
  /\ UNCHANGED timers

\* The interval callback of startSessionCacheCleanup
SessionReaper ==
  /\ transportType = "http"
  /\ IntervalActive(timers, "session")
  /\ CallCleanupExpired({}, 0)

\* ------------------------------------------- calls of the reaper timers
TimerOps ==
  {"startClientCacheCleanup", "stopClientCacheCleanup",
   "startSessionCacheCleanup", "stopSessionCacheCleanup"}

TimerCall(op, T) ==
  CASE op = "startClientCacheCleanup" -> startClientCacheCleanup(T)
    [] op = "stopClientCacheCleanup" -> stopClientCacheCleanup(T)
    [] op = "startSessionCacheCleanup" -> startSessionCacheCleanup(T)
    [] op = "stopSessionCacheCleanup" -> stopSessionCacheCleanup(T)

\* One of the four functions is called; lastCall tells whether it created or
\* cleared an interval
CallTimer(op) ==
  /\ startup = "running"
  /\ TimerCall(op, timers).count <= MaxTimers
  /\ timers' = TimerCall(op, timers)
  /\ lastCall' = Call(op, 0, timers' # timers, 0, 0, FALSE)
  /\ UNCHANGED <<transportType, envConfigured, startup, clock, closed>>
  /\ UNCHANGED httpVars
  /\ UNCHANGED globalVars
  /\ UNCHANGED pureVars

\* ------------------------------------------------------- pure functions
NoCredentials == [email |-> <<>>, password |-> <<>>, base64 |-> <<>>]
NotParsed == [ok |-> FALSE, email |-> <<"?">>, password |-> <<"?">>]

\* Strings of at most n characters
StringsUpTo(alphabet, n) == UNION {[1..k -> alphabet] : k \in 0..n}

\* The credentials of a client: an identity without colon and not empty, a
\* secret, and the header text it computes from them
ClientCredentials ==
  {[email |-> e, password |-> pw, base64 |-> EncodeBasic(e, pw)] :
     e \in StringsUpTo(Chars \ {COLON}, MaxLen) \ {<<>>},
     pw \in StringsUpTo(Chars, MaxLen)}

\* parseBasicAuth(authHeader) of the header of these credentials
CallParseBasicAuth ==
  /\ authHeader # NoCredentials
  /\ parsed = NotParsed
  /\ parsed' = parseBasicAuth(DecodeCredentials(authHeader.base64))
  /\ UNCHANGED <<authHeader, env, sessionConfig, timers>>
  /\ UNCHANGED <<transportType, envConfigured, startup, clock, closed, lastCall>>
  /\ UNCHANGED httpVars
  /\ UNCHANGED globalVars

\* The values a setting is given in process.env
EnvValues ==
  {Unset, SetTo(<<"6", "0", "0", "0", "0">>), SetTo(<<"5", "9", "9", "9", "9">>),
   SetTo(<<"3", "0", "0", "0", "0", "0">>), SetTo(<<"2", "9", "9", "9", "9", "9">>),
   SetTo(<<"6", "0", "0", "0", "0", ".", "5">>), SetTo(<<"x">>), SetTo(<<>>)}
NoEnv == [n \in Settings |-> Unset]

\* getSessionConfig() at module load
CallGetSessionConfig ==
  /\ startup = "loading"
  /\ sessionConfig' = getSessionConfig(env)
  /\ startup' = IF sessionConfig'.threw THEN "failed" ELSE "starting"
  /\ UNCHANGED <<authHeader, parsed, env, timers>>
  /\ UNCHANGED <<transportType, envConfigured, clock, closed, lastCall>>
  /\ UNCHANGED httpVars
  /\ UNCHANGED globalVars

TypeOK ==
  /\ transportType \in {"stdio", "http"}
  /\ envConfigured \in BOOLEAN
  /\ clock \in 0..MaxTime
  /\ initCount \in 0..MaxInit
  /\ Len(attempts) <= initCount
  /\ timers.count \in 0..MaxTimers

InitCommon ==
  /\ startup = "starting"
  /\ clock = 0
  /\ attempts = <<>>
  /\ clientCache = [k \in Keys |-> 0]
  /\ authPromises = [k \in Keys |-> 0]
  /\ sessions = [s \in SessionIds |-> NoSession]
  /\ waiting = {}
  /\ initCount = 0
  /\ lastResponse = NoResponse
  /\ authenticationPromise = NoPromise
  /\ envLogins = 0
  /\ globalWaiters = {}
  /\ lastResolve = NoResolve
  /\ closed = {}
  /\ lastCall = NoCall
  /\ timers = NoTimers
  /\ authHeader = NoCredentials
  /\ parsed = NotParsed
  /\ env = NoEnv
  /\ sessionConfig = getSessionConfig(NoEnv)

\* TRANSPORT_MODE=http
Init ==
  /\ transportType = "http"
  /\ envConfigured = FALSE
  /\ InitCommon

Next ==
  \/ SetupHttpTransport
  \/ \E hdr \in Headers, tickAt \in 0..1 : Post(hdr, 0, TRUE, tickAt)
  \/ \E sid \in 0..MaxInit, init \in BOOLEAN, tickAt \in 0..4 :
       Post(NoHeader, sid, init, tickAt)
  \/ \E a \in 1..MaxInit, ok \in BOOLEAN : LoginComplete(a, ok)
  \/ ClientReaper
  \/ Tick

Spec == Init /\ [][Next]_vars

\* The client authentication cache: initialize requests only
NextAuth ==
  \/ SetupHttpTransport
  \/ \E hdr \in Headers, tickAt \in 0..1 : Post(hdr, 0, TRUE, tickAt)
  \/ \E a \in 1..MaxInit, ok \in BOOLEAN : LoginComplete(a, ok)
  \/ ClientReaper
  \/ Tick

SpecAuth == Init /\ [][NextAuth]_vars

\* The client resolver in both delivery modes
InitResolve ==
  /\ transportType \in {"stdio", "http"}
  /\ envConfigured \in BOOLEAN
  /\ InitCommon

NextResolve ==
  \/ SetupStdioTransport
  \/ \E ok \in BOOLEAN : StdioLoginComplete(ok)
  \/ SetupHttpTransport
  \/ \E hdr \in {Basic(<<"a", ":", "x">>), Bearer(<<"x">>)} : Post(hdr, 0, TRUE, 0)
  \/ \E a \in 1..MaxInit, ok \in BOOLEAN : LoginComplete(a, ok)
  \/ \E ctx \in Contexts, tickAt \in 0..1 : GetClient(ctx, tickAt)
  \/ \E ok \in BOOLEAN : GlobalAuthDone(ok)
  \/ Tick

SpecResolve == InitResolve /\ [][NextResolve]_vars

\* getGlobalSunsamaClient in both delivery modes: tool calls without session
\* and with the id of a session that does not exist
NextGlobal ==
  \/ SetupStdioTransport
  \/ \E ok \in BOOLEAN : StdioLoginComplete(ok)
  \/ SetupHttpTransport
  \/ \E ctx \in {c \in Contexts : c.kind # "client"} : GetClient(ctx, 0)
  \/ \E ok \in BOOLEAN : GlobalAuthDone(ok)
  \/ Tick

SpecGlobal == InitResolve /\ [][NextGlobal]_vars

\* The POST handler with session ids: requests without credentials, with a
\* Bearer token and with a wrong password, and the session reaper
PostHeaders == {NoHeader, Bearer(<<"x">>), Basic(<<"a", ":", "y">>)}

NextPost ==
  \/ SetupHttpTransport
  \/ \E hdr \in PostHeaders, init \in BOOLEAN, tickAt \in 0..1 :
       Post(hdr, 0, init, tickAt)
  \/ \E hdr \in {NoHeader, Bearer(<<"x">>)}, sid \in SessionIds, init \in BOOLEAN,
        tickAt \in 0..4 :
       Post(hdr, sid, init, tickAt)
  \/ \E a \in 1..MaxInit, ok \in BOOLEAN : LoginComplete(a, ok)
  \/ \E tickAt \in 0..MaxInit : CallCleanupExpired({}, tickAt)
  \/ Tick

SpecPost == Init /\ [][NextPost]_vars

\* The session registry through its methods
NextRegistry ==
  \/ SetupHttpTransport
  \/ \E sessionId \in RegistryIds, sessionData \in 1..MaxInit :
       CallCreateSession(sessionId, sessionData)
  \/ \E op \in GetOps, sessionId \in RegistryIds, tickAt \in 0..1 :
       CallGet(op, sessionId, tickAt)
  \/ \E sessionId \in RegistryIds : CallHasSession(sessionId)
  \/ \E sessionId \in RegistryIds : CallRemoveSession(sessionId)
  \/ \E throwers \in SUBSET (1..MaxInit), tickAt \in 0..MaxInit :
       CallCleanupExpired(throwers, tickAt)
  \/ \E throwers \in SUBSET (1..MaxInit) : CallCleanupAll(throwers)
  \/ Tick

SpecRegistry == Init /\ [][NextRegistry]_vars

\* Sessions from creation to termination: initialize requests with a token,
\* requests and DELETE requests with a session id, both reapers, and shutdown
NextLifecycle ==
  \/ SetupHttpTransport
  \/ Post(Bearer(<<"x">>), 0, TRUE, 0)
  \/ \E sid \in SessionIds : Post(NoHeader, sid, FALSE, 0)
  \/ \E sid \in 0..MaxInit, tickAt \in 0..1 : Delete(sid, tickAt)
  \/ CallCleanupExpired({}, 0)
  \/ ClientReaper
  \/ \E throwers \in SUBSET (1..MaxInit), failing \in SUBSET (1..MaxInit) :
       Shutdown(throwers, failing)
  \/ Tick

SpecLifecycle == Init /\ [][NextLifecycle]_vars

\* The two reapers while the server runs: the sweeps are called again and
\* again for as long as their intervals are active
NextSweep ==
  \/ SetupHttpTransport
  \/ Post(Bearer(<<"x">>), 0, TRUE, 0)
  \/ \E sid \in SessionIds : Post(NoHeader, sid, FALSE, 0)
  \/ \E sid \in 0..MaxInit : Delete(sid, 0)
  \/ ClientReaper
  \/ SessionReaper
  \/ Shutdown({}, {})
  \/ Tick

SpecSweep ==
  Init /\ [][NextSweep]_vars /\ WF_vars(ClientReaper) /\ WF_vars(SessionReaper)

\* The client cache filled by initialize requests and drained by
\* cleanupAllClients
DrainHeaders == {Bearer(<<"x">>), Basic(<<"a", ":", "x">>)}

NextDrain ==
  \/ SetupHttpTransport
  \/ \E hdr \in DrainHeaders : Post(hdr, 0, TRUE, 0)
  \/ \E a \in 1..MaxInit, ok \in BOOLEAN : LoginComplete(a, ok)
  \/ \E failing \in SUBSET (1..MaxInit) : CallCleanupAllClients(failing)
  \/ ClientReaper
  \/ Tick

SpecDrain == Init /\ [][NextDrain]_vars

\* The four timer functions called in any order
NextTimers ==
  \/ SetupHttpTransport
  \/ \E op \in TimerOps : CallTimer(op)
  \/ Post(Bearer(<<"x">>), 0, TRUE, 0)
  \/ ClientReaper
  \/ SessionReaper
  \/ \E throwers \in SUBSET (1..MaxInit), failing \in SUBSET (1..MaxInit) :
       Shutdown(throwers, failing)
  \/ Tick

SpecTimers == Init /\ [][NextTimers]_vars

\* parseBasicAuth on the headers clients compute
InitParse ==
  /\ transportType = "http"
  /\ envConfigured = FALSE
  /\ startup = "starting"
  /\ clock = 0
  /\ attempts = <<>>
  /\ clientCache = [k \in Keys |-> 0]
  /\ authPromises = [k \in Keys |-> 0]
  /\ sessions = [s \in SessionIds |-> NoSession]
  /\ waiting = {}
  /\ initCount = 0
  /\ lastResponse = NoResponse
  /\ authenticationPromise = NoPromise
  /\ envLogins = 0
  /\ globalWaiters = {}
  /\ lastResolve = NoResolve
  /\ closed = {}
  /\ lastCall = NoCall
  /\ timers = NoTimers
  /\ authHeader \in ClientCredentials
  /\ parsed = NotParsed
  /\ env = NoEnv
  /\ sessionConfig = getSessionConfig(NoEnv)

NextParse == CallParseBasicAuth

SpecParse == InitParse /\ [][NextParse]_vars

\* getSessionConfig on the environments of EnvValues
InitConfig ==
  /\ transportType = "http"
  /\ envConfigured = FALSE
  /\ startup = "loading"
  /\ clock = 0
  /\ attempts = <<>>
  /\ clientCache = [k \in Keys |-> 0]
  /\ authPromises = [k \in Keys |-> 0]
  /\ sessions = [s \in SessionIds |-> NoSession]
  /\ waiting = {}
  /\ initCount = 0
  /\ lastResponse = NoResponse
  /\ authenticationPromise = NoPromise
  /\ envLogins = 0
  /\ globalWaiters = {}
  /\ lastResolve = NoResolve
  /\ closed = {}
  /\ lastCall = NoCall
  /\ timers = NoTimers
  /\ authHeader = NoCredentials
  /\ parsed = NotParsed
  /\ env \in [Settings -> EnvValues]
  /\ sessionConfig = NoConfig

NextConfig == CallGetSessionConfig

SpecConfig == InitConfig /\ [][NextConfig]_vars

\* ================================================================ claims
AttemptIds == DOMAIN attempts
IsPending(a) == attempts[a].state = "pending"
\* A client that exists upstream or is about to: being authenticated, or
\* authenticated and not logged out
IsLive(a) ==
  \/ attempts[a].state = "pending"
  \/ attempts[a].state = "fulfilled" /\ ~attempts[a].loggedOut
PendingFor(k) == {a \in AttemptIds : attempts[a].key = k /\ IsPending(a)}
WaitingFor(k) == {w \in waiting : CacheKeyOf(w.hdr) = k}
\* The sessions an initialize request created in this step
CreatedNow(s) == sessions[s] = NoSession /\ sessions'[s] # NoSession

\* C1: calls of authenticateHttpRequest made for one credential while its
\* authentication is under way start no second authentication: a cache key
\* has at most one pending attempt, every caller suspended on that key awaits
\* that attempt, and when it is fulfilled every one of them gets its entry.
C1_Coalesced ==
  \A k \in Keys :
    /\ Cardinality(PendingFor(k)) <= 1
    /\ \A w \in WaitingFor(k) : w.attempt \in PendingFor(k)

C1_SameEntry ==
  \A a \in AttemptIds :
    (IsPending(a) /\ attempts'[a].state = "fulfilled") =>
      \A w \in WaitingFor(attempts[a].key) :
        sessions'[w.id].sessionData = a

C1_InFlightCoalescing == []C1_Coalesced /\ [][C1_SameEntry]_vars

\* Two callers with the same credential suspended on one authentication
C1_Witness ==
  \E w1, w2 \in waiting :
    /\ w1.id # w2.id
    /\ w1.hdr = w2.hdr
    /\ w1.attempt = w2.attempt
    /\ Cardinality({a \in AttemptIds : attempts[a].hdr = w1.hdr}) = 1

\* C2: authPromises holds an entry for a key only while an authentication
\* for that key is still running.
C2_DeregisteredOnCompletion ==
  \A k \in Keys :
    authPromises[k] # 0 => IsPending(authPromises[k])

\* C3: a failed login is delivered to every caller awaiting it (401, no
\* session), leaves clientCache and authPromises without an entry for the
\* key, and is never handed out afterwards: nothing refers to a rejected
\* attempt, so the next call for the key authenticates again.
C3_Forgotten ==
  \A a \in AttemptIds :
    attempts[a].state = "rejected" =>
      /\ \A k \in Keys : clientCache[k] # a /\ authPromises[k] # a
      /\ \A w \in waiting : w.attempt # a
      /\ \A s \in SessionIds : sessions[s].sessionData # a

C3_Delivered ==
  \A a \in AttemptIds :
    (IsPending(a) /\ attempts'[a].state = "rejected") =>
      /\ clientCache'[attempts[a].key] = 0
      /\ authPromises'[attempts[a].key] = 0
      /\ \A w \in WaitingFor(attempts[a].key) :
           w \notin waiting' /\ sessions'[w.id] = NoSession
      /\ lastResponse' = Response("initialize", 401, a, lastResponse'.hdr)

C3_FailureNotRemembered == []C3_Forgotten /\ [][C3_Delivered]_vars

\* A rejected login followed by a fresh authentication with the same header
C3_Witness ==
  \E a, b \in AttemptIds :
    /\ a < b
    /\ attempts[a].state = "rejected"
    /\ attempts[b].hdr = attempts[a].hdr
    /\ attempts[b].hdr.scheme = "Basic"

\* C4: an initialize request is never served with an entry that existed
\* before the call and was invalid at the time of the call.
C4_Step ==
  \A s \in SessionIds :
    CreatedNow(s) =>
      LET a == sessions'[s].sessionData IN
      (a \in AttemptIds /\ attempts[a].state = "fulfilled") =>
        isClientValid(attempts[a], clock)

C4_NeverReturnsExpired == [][C4_Step]_vars

\* C5: a call that returns an entry that was cached and valid at the time of
\* the call leaves the entry's lastAccessedAt at that time.
C5_Step ==
  \A s \in SessionIds :
    CreatedNow(s) =>
      LET a == sessions'[s].sessionData IN
      (/\ a \in AttemptIds
       /\ attempts[a].state = "fulfilled"
       /\ clientCache[attempts[a].key] = a
       /\ isClientValid(attempts[a], clock)) =>
        attempts'[a].lastAccessedAt = clock

C5_HitTouchesEntry == [][C5_Step]_vars

\* C6: a call is only ever given the entry or the pending promise that was
\* created for its own credential.
C6_NoCrossCredential ==
  /\ \A w \in waiting : attempts[w.attempt].hdr = w.hdr
  /\ (lastResponse.status = 200 /\ lastResponse.attempt # NoAttempt) =>
       attempts[lastResponse.attempt].hdr = lastResponse.hdr

\* C7: a cache key has at most one live client at any time (pending, or
\* authenticated and not logged out), what clientCache holds for the key is
\* that client, and a step starts an authentication for a key only if none
\* was pending for it and the cache held no entry for it that is still valid.
C7_OneLive ==
  \A k \in Keys :
    /\ Cardinality({a \in AttemptIds : attempts[a].key = k /\ IsLive(a)}) <= 1
    /\ clientCache[k] # 0 =>
         /\ attempts[clientCache[k]].key = k
         /\ attempts[clientCache[k]].state = "fulfilled"
         /\ ~attempts[clientCache[k]].loggedOut

C7_StartsOnlyWhenNeeded ==
  \A b \in DOMAIN attempts' :
    b \notin AttemptIds =>
      LET k == attempts'[b].key IN
      /\ PendingFor(k) = {}
      /\ clientCache[k] # 0 => ~isClientValid(attempts[clientCache[k]], clock')

C7_OneLiveEntryPerKey == []C7_OneLive /\ [][C7_StartsOnlyWhenNeeded]_vars

\* A key whose entry was evicted and logged out, with its replacement live
C7_Witness ==
  \E a, b \in AttemptIds :
    /\ a # b
    /\ attempts[a].key = attempts[b].key
    /\ attempts[a].loggedOut
    /\ IsLive(b)
    /\ clientCache[attempts[b].key] = b

\* C8: in stdio mode one login in total, startup included, and every tool
\* call gets the client of that login.
C8_SingleStdioAuthentication ==
  transportType = "stdio" =>
    /\ envLogins <= 1
    /\ lastResolve.out = "global" => lastResolve.client = 1

\* C9: in HTTP mode getClient never falls back to the global client: no
\* global authentication is started and no call resolves to its client.
C9_NoGlobalClientInHttpMode ==
  transportType = "http" =>
    /\ authenticationPromise.state \notin {"pending", "fulfilled"}
    /\ lastResolve.out # "global"

\* C10: the POST handler answers 404 to an unknown or expired session id, 400
\* to a request without session id that is no initialize request, 401 to an
\* initialize request whose authentication fails, and never 401 to a request
\* that carried a session id.
C10_DistinctResponses ==
  /\ lastResponse.branch = "expired" => lastResponse.status = 404
  /\ lastResponse.branch = "invalid" => lastResponse.status = 400
  /\ lastResponse.branch = "initialize" => lastResponse.status \in {200, 401}
  /\ lastResponse.branch \in {"reuse", "expired"} => lastResponse.status # 401

\* C11: a request answered 404 because its session id names an expired
\* session leaves the registry without an entry for that id.
C11_ExpiredSessionRemoved ==
  (lastCall.op = "POST" /\ lastResponse.status = 404) =>
    sessions[lastCall.id] = NoSession

\* C12: a POST whose credentials upstream rejects is answered, whatever its
\* method, with error -32000 and the message 'Authentication failed'; a POST
\* without credentials is answered with an error -32000.
C12_AuthenticationErrors ==
  lastResponse.branch # "none" =>
    /\ RejectedUpstream(lastResponse.hdr) =>
         /\ ErrorCode(lastResponse) = -32000
         /\ ErrorMessage(lastResponse) = "Authentication failed"
    /\ lastResponse.hdr = NoHeader => ErrorCode(lastResponse) = -32000

\* C13: a lookup of an id that names no session, or a session that is
\* expired at the instant of the lookup (idle for TRANSPORT_IDLE_TIMEOUT or
\* older than TRANSPORT_MAX_LIFETIME), returns undefined and leaves no entry
\* for that id.
C13_LookupRejectsExpired ==
  (lastCall.op \in GetOps /\ ~lastCall.wasValid) =>
    /\ ~lastCall.result
    /\ sessions[lastCall.id] = NoSession

\* C14: a lookup returns the session exactly when hasSession is true at the
\* same instant, and after a lookup of a session for which hasSession was
\* false, hasSession is still false.
C14_HasSessionAgreesWithGet ==
  lastCall.op \in GetOps =>
    /\ lastCall.result <=> lastCall.wasValid
    /\ ~lastCall.wasValid => ~hasSession(sessions, lastCall.id, clock)

\* C15: whenever a lookup or the sweep removes a session, close() has been
\* called on its transport, and the sweep returns with every session that
\* was expired when it started removed, whether close() threw or not.
C15_Step ==
  /\ lastCall'.op \in GetOps \cup {"cleanupExpired"} =>
       \A s \in SessionIds :
         (sessions[s] # NoSession /\ sessions'[s] = NoSession) =>
           sessions[s].transport \in closed'
  /\ lastCall'.op = "cleanupExpired" =>
       /\ lastCall'.result
       /\ \A s \in SessionIds :
            (sessions[s] # NoSession /\ ~isValid(sessions[s], clock)) =>
              sessions'[s] = NoSession

C15_EvictionReleases == [][C15_Step]_vars

\* C16: removeSession of an id without entry returns false and changes
\* nothing; of an id with an entry it returns true, removes that entry and no
\* other, lowers the session count by one, and hasSession of the id is false
\* afterwards.
C16_Step ==
  lastCall'.op = "removeSession" =>
    LET id == lastCall'.id
    IN /\ lastCall'.result <=> sessions[id] # NoSession
       /\ sessions[id] = NoSession => sessions' = sessions
       /\ sessions[id] # NoSession =>
            /\ sessions'[id] = NoSession
            /\ getSessionCount(sessions') = getSessionCount(sessions) - 1
       /\ \A s \in SessionIds \ {id} : sessions'[s] = sessions[s]
       /\ ~hasSession(sessions', id, clock')
       /\ closed' = closed

C16_RemoveSession == [][C16_Step]_vars

\* A session has been removed while another one stays registered
C16_Witness ==
  /\ lastCall.op = "removeSession"
  /\ lastCall.result
  /\ getSessionCount(sessions) = 1

\* C17: cleanupAll calls close() on the transport of every session, goes on
\* when a close() throws, returns normally and leaves the registry empty.
C17_Step ==
  lastCall'.op = "cleanupAll" =>
    /\ lastCall'.result
    /\ \A s \in SessionIds :
         sessions[s] # NoSession => sessions[s].transport \in closed'
    /\ getSessionCount(sessions') = 0

C17_CleanupAll == [][C17_Step]_vars

\* cleanupAll has closed two transports, and a close() threw
C17_Witness ==
  /\ lastCall.op = "cleanupAll"
  /\ lastCall.errors >= 1
  /\ Cardinality(closed) >= 2
  /\ getSessionCount(sessions) = 0

\* C18: cleanupExpired leaves every session that is valid when the sweep
\* ends as it was, its transport not closed; every session it changes was
\* expired, is removed, and has had close() called on its transport.
C18_Step ==
  lastCall'.op = "cleanupExpired" =>
    \A s \in SessionIds :
      /\ (sessions[s] # NoSession /\ isValid(sessions[s], clock')) =>
           /\ sessions'[s] = sessions[s]
           /\ sessions[s].transport \notin closed'
      /\ sessions'[s] # sessions[s] =>
           /\ ~isValid(sessions[s], clock')
           /\ sessions'[s] = NoSession
           /\ sessions[s].transport \in closed'

C18_SweepKeepsValid == [][C18_Step]_vars

\* A sweep has removed the session of the first transport and kept the
\* session of the second
C18_Witness ==
  /\ lastCall.op = "cleanupExpired"
  /\ closed = {1}
  /\ \E s \in SessionIds :
       /\ sessions[s] # NoSession
       /\ sessions[s].transport = 2
       /\ isValid(sessions[s], clock)

\* C19: createSession always completes; it leaves under the id the entry of
\* this call, with its transport, its session data and both timestamps at
\* the time of the call, whether the id had an entry or not; the other
\* entries are unchanged, and the count grows only when the id had no entry.
C19_Step ==
  lastCall'.op = "createSession" =>
    LET id == lastCall'.id
    IN /\ lastCall'.result
       /\ sessions'[id] = [transport |-> lastCall'.transport,
                           sessionData |-> lastCall'.sessionData,
                           createdAt |-> clock', lastAccessedAt |-> clock']
       /\ \A s \in SessionIds \ {id} : sessions'[s] = sessions[s]
       /\ getSessionCount(sessions') =
            getSessionCount(sessions) + (IF sessions[id] = NoSession THEN 1 ELSE 0)
       /\ hasSession(sessions', id, clock')

C19_CreateOverwrites == [][C19_Step]_vars

\* createSession has been called with the id of a valid session and the
\* entry is that of the second call
C19_Witness ==
  /\ lastCall.op = "createSession"
  /\ lastCall.wasValid
  /\ sessions[lastCall.id].transport = 2
  /\ sessions[lastCall.id].createdAt > 0

\* C20: a request whose session id is not that of a valid session causes no
\* createSession and no authentication, and is answered 404.
C20_Step ==
  (lastCall'.op = "POST" /\ ~lastCall'.wasValid) =>
    /\ \A s \in SessionIds : sessions'[s] \in {sessions[s], NoSession}
    /\ attempts' = attempts
    /\ clientCache' = clientCache
    /\ authPromises' = authPromises
    /\ waiting' = waiting
    /\ initCount' = initCount
    /\ lastResponse'.status = 404

C20_NoSessionUnderCallerId == [][C20_Step]_vars

\* An initialize request with credentials and a session id that names no
\* valid session has been answered
C20_Witness ==
  /\ lastCall.op = "POST"
  /\ ~lastCall.wasValid
  /\ lastResponse.hdr = Bearer(<<"x">>)
  /\ lastResponse.status = 404
  /\ sessions[lastCall.id] # NoSession

\* C23: parseBasicAuth of the header a client computes from an identity
\* (not empty, without colon) and a secret (any, colons included) returns
\* that identity and that secret.
C23_FirstColonSplit ==
  parsed # NotParsed =>
    parsed = [ok |-> TRUE, email |-> TextOf(authHeader.email),
              password |-> TextOf(authHeader.password)]

\* C25: getSessionConfig returns a configuration exactly when every setting
\* that is set parses to an integer at or above its floor; a setting that is
\* unset has its default value, a setting that is set has its parsed value;
\* every setting exactly at its floor is accepted, and a setting without a
\* leading number makes it throw.
C25_AtFloor ==
  [CLIENT_IDLE_TIMEOUT |-> SetTo(<<"6", "0", "0", "0", "0">>),
   CLIENT_MAX_LIFETIME |-> SetTo(<<"3", "0", "0", "0", "0", "0">>),
   TRANSPORT_IDLE_TIMEOUT |-> SetTo(<<"6", "0", "0", "0", "0">>),
   TRANSPORT_MAX_LIFETIME |-> SetTo(<<"3", "0", "0", "0", "0", "0">>),
   CLEANUP_INTERVAL |-> SetTo(<<"6", "0", "0", "0", "0">>)]
C25_Defaults ==
  [CLIENT_IDLE_TIMEOUT |-> 600000, CLIENT_MAX_LIFETIME |-> 3600000,
   TRANSPORT_IDLE_TIMEOUT |-> 900000, TRANSPORT_MAX_LIFETIME |-> 7200000,
   CLEANUP_INTERVAL |-> 300000]
C25_Acceptable(n) ==
  env[n].set =>
    /\ ~ParseInt(env[n].text).nan
    /\ ParseInt(env[n].text).value >= Floor[n]

C21_Removed ==
  /\ \A s \in SessionIds :
       sessions[s] # NoSession => sessions[s].transport \notin closed
  /\ \A t \in closed : ~hasSession(sessions, t, clock)

C21_NotServed ==
  (lastCall'.op \in {"POST", "DELETE"} /\ lastCall'.id \in closed) =>
    ~lastCall'.result

C21_ClosedSessionRemoved == []C21_Removed /\ [][C21_NotServed]_vars

\* A DELETE request has terminated a valid session while another session
\* stays registered
C21_Witness ==
  /\ lastCall.op = "DELETE"
  /\ lastCall.result
  /\ lastCall.transport \in closed
  /\ sessions[lastCall.id] = NoSession
  /\ getSessionCount(sessions) = 1

\* C22: the shutdown handler runs from a running server to the exit of the
\* process in one step, in which every registered transport is closed, every
\* cached client is logged out, and the session registry and the client
\* cache are emptied; after the exit nothing runs: no sweep, no second drain.
C22_Step ==
  /\ lastCall'.op = "shutdown" =>
       /\ startup = "running"
       /\ startup' = "exited"
       /\ lastCall'.result
       /\ getSessionCount(sessions') = 0
       /\ \A k \in Keys : clientCache'[k] = 0
       /\ \A s \in SessionIds :
            sessions[s] # NoSession => sessions[s].transport \in closed'
       /\ \A k \in Keys :
            clientCache[k] # 0 => attempts'[clientCache[k]].loggedOut
  /\ startup = "exited" => vars' = vars

C22_ShutdownDrainsOnce == [][C22_Step]_vars

\* The process has exited after closing a session, with a close() that
\* threw, and logging a client out
C22_Witness ==
  /\ startup = "exited"
  /\ lastCall.op = "shutdown"
  /\ lastCall.errors >= 1
  /\ closed # {}
  /\ \E a \in AttemptIds : attempts[a].loggedOut

\* C24: a header that is absent, has neither scheme, has (Basic) no colon or
\* an empty identity, or has (Bearer) an empty token starts no
\* authentication: every authentication was started for a well-formed
\* header, a request without one is answered with the 401 of the failure,
\* and the step that answers it leaves clientCache and authPromises, and the
\* attempts, as they were.
C24_WellFormed(hdr) ==
  \/ hdr.scheme = "Bearer" /\ hdr.text # <<>>
  \/ /\ hdr.scheme = "Basic"
     /\ hdr.text # <<>>
     /\ hdr.text[1] # ":"
     /\ \E i \in 1..Len(hdr.text) : hdr.text[i] = ":"

C24_NothingStarted ==
  /\ \A a \in AttemptIds : C24_WellFormed(attempts[a].hdr)
  /\ \A w \in waiting : C24_WellFormed(w.hdr)
  /\ (lastResponse.branch = "initialize" /\ ~C24_WellFormed(lastResponse.hdr)) =>
       lastResponse = Response("initialize", 401, NoAttempt, NoHeader)

C24_Step ==
  (/\ lastResponse' # lastResponse
   /\ lastResponse'.branch = "initialize"
   /\ ~C24_WellFormed(lastResponse'.hdr)) =>
    /\ attempts' = attempts
    /\ clientCache' = clientCache
    /\ authPromises' = authPromises
    /\ waiting' = waiting
    /\ sessions' = sessions

C24_FormatErrors == []C24_NothingStarted /\ [][C24_Step]_vars

\* A malformed header has been answered while a client was cached and an
\* authentication was under way
C24_Witness ==
  /\ lastResponse = Response("initialize", 401, NoAttempt, NoHeader)
  /\ \E k \in Keys : clientCache[k] # 0
  /\ \E a \in AttemptIds : IsPending(a)

\* C26: the session registry never holds more sessions than MAX_SESSIONS.
C26_SessionLimit == getSessionCount(sessions) <= MAX_SESSIONS

\* C27: a lookup touches before it validates: it returns the session exactly
\* when the id has an entry whose lifetime has not run out, however long the
\* entry was idle, and a lookup that returns the session leaves its
\* lastAccessedAt at the time of the lookup and its createdAt, transport and
\* session data as they were.
C27_Step ==
  lastCall'.op \in GetOps =>
    LET id == lastCall'.id
    IN /\ lastCall'.result <=>
            /\ sessions[id] # NoSession
            /\ clock' - sessions[id].createdAt < TRANSPORT_MAX_LIFETIME
       /\ lastCall'.result =>
            sessions'[id] = [sessions[id] EXCEPT !.lastAccessedAt = clock]

C27_TouchBeforeValidation == [][C27_Step]_vars

\* A lookup has returned a session that had been idle for the idle timeout
C27_Witness ==
  /\ lastCall.op \in GetOps
  /\ lastCall.result
  /\ ~lastCall.wasValid
  /\ sessions[lastCall.id].lastAccessedAt > sessions[lastCall.id].createdAt

\* C28: once getGlobalSunsamaClient has created authenticationPromise, no
\* call invokes initializeStdioAuth again (no further login, and the promise
\* keeps its client), and every call that resolves gets the client of that
\* promise.
C28_Step ==
  authenticationPromise # NoPromise =>
    /\ authenticationPromise' # NoPromise
    /\ authenticationPromise'.client = authenticationPromise.client
    /\ envLogins' = envLogins

C28_SameClient ==
  lastResolve.out = "global" =>
    /\ authenticationPromise.state = "fulfilled"
    /\ lastResolve.client = authenticationPromise.client

C28_GlobalAuthOnce == []C28_SameClient /\ [][C28_Step]_vars

\* Two calls await the authentication the first of them started
C28_Witness ==
  /\ authenticationPromise.state = "pending"
  /\ Cardinality(globalWaiters) = 2

\* C29: a request with the id of a valid session is served (200) with the
\* transport and the client entry of that session, and changes neither the
\* attempts nor clientCache nor authPromises.
C29_Step ==
  (lastCall'.op = "POST" /\ lastCall'.wasValid) =>
    /\ lastCall'.result
    /\ lastResponse'.status = 200
    /\ lastCall'.transport = sessions[lastCall'.id].transport
    /\ lastCall'.sessionData = sessions[lastCall'.id].sessionData
    /\ attempts' = attempts
    /\ clientCache' = clientCache
    /\ authPromises' = authPromises

C29_SessionReuse == [][C29_Step]_vars

\* C30: what authenticateHttpRequest does for a key is what it would do if
\* no other key had a cached entry or a pending authentication, and it leaves
\* the other keys' entries, promises and clients alone; the completion of an
\* authentication changes nothing of another key.
C30_Only(f, k) == [j \in Keys |-> IF j = k THEN f[j] ELSE 0]

C30_SameOutcome ==
  \A h \in Creds :
    LET k == CacheKeyOf(h)
        r == AuthCall(attempts, clientCache, authPromises, h, clock, clock)
        q == AuthCall(attempts, C30_Only(clientCache, k), C30_Only(authPromises, k),
                      h, clock, clock)
    IN /\ r.path = q.path
       /\ r.attempt = q.attempt
       /\ r.attempts[r.attempt] = q.attempts[q.attempt]
       /\ r.clientCache[k] = q.clientCache[k]
       /\ r.authPromises[k] = q.authPromises[k]
       /\ \A j \in Keys \ {k} :
            /\ r.clientCache[j] = clientCache[j]
            /\ r.authPromises[j] = authPromises[j]
       /\ \A a \in AttemptIds : attempts[a].key # k => r.attempts[a] = attempts[a]

C30_Settle ==
  \A a \in AttemptIds :
    (IsPending(a) /\ attempts'[a].state # "pending") =>
      \A j \in Keys \ {attempts[a].key} :
        /\ clientCache'[j] = clientCache[j]
        /\ authPromises'[j] = authPromises[j]
        /\ WaitingFor(j) \subseteq waiting'

C30_KeysIndependent == []C30_SameOutcome /\ [][C30_Settle]_vars

\* An authentication is pending for one key while another key has a cached
\* entry
C30_Witness ==
  \E a, b \in AttemptIds :
    /\ attempts[a].key # attempts[b].key
    /\ IsPending(a)
    /\ clientCache[attempts[b].key] = b
    /\ authPromises[attempts[a].key] = a

\* C31: while the reaper intervals are active, a client cache entry and a
\* session that have become invalid do not stay in their maps: unless a
\* request replaces the entry first, a periodic sweep removes it, and the
\* sweep that removes an entry has found it invalid and has called logout on
\* its client, or close on its transport.
C31_ClientSwept ==
  []<>(IntervalActive(timers, "client") =>
         \A k \in Keys :
           clientCache[k] # 0 => isClientValid(attempts[clientCache[k]], clock))

C31_SessionSwept ==
  []<>(IntervalActive(timers, "session") =>
         \A s \in SessionIds :
           sessions[s] # NoSession => isValid(sessions[s], clock))

C31_Step ==
  /\ \A k \in Keys :
       clientCache[k] # 0 /\ clientCache'[k] = 0 /\ startup' = "running" =>
         /\ ~isClientValid(attempts[clientCache[k]], clock)
         /\ attempts'[clientCache[k]].loggedOut
  /\ \A s \in SessionIds :
       lastCall'.op = "cleanupExpired" /\ sessions[s] # NoSession
         /\ sessions'[s] = NoSession =>
           /\ ~isValid(sessions[s], clock)
           /\ sessions[s].transport \in closed'

C31_SweepsRemoveInvalid ==
  C31_ClientSwept /\ C31_SessionSwept /\ [][C31_Step]_vars

\* A sweep has just closed and removed a session whose client had been logged
\* out and removed by the other sweep, both intervals still active
C31_Witness ==
  /\ lastCall.op = "cleanupExpired"
  /\ IntervalActive(timers, "client") /\ IntervalActive(timers, "session")
  /\ \E s \in SessionIds :
       /\ s \in closed /\ sessions[s] = NoSession
       /\ \E a \in AttemptIds :
            attempts[a].loggedOut /\ clientCache[attempts[a].key] = 0

\* C32: start and stop of each reaper are idempotent.  At most one interval
\* of each reaper is active, and it is the one its cleanupTimer variable
\* holds; a start while the interval is active and a stop while none is
\* active change nothing; a start while none is active creates exactly one
\* interval and a stop while one is active clears it; a call for one reaper
\* leaves the variable and the interval of the other reaper as they were.
C32_IntervalsOf(T, reaper) == {i \in T.intervals : i.callback = reaper}

C32_AtMostOne ==
  \A r \in Reapers :
    /\ Cardinality(C32_IntervalsOf(timers, r)) <= 1
    /\ C32_IntervalsOf(timers, r) =
         IF timers[r] = NoTimer THEN {} ELSE {Interval(timers[r], r)}

C32_Reaper(op) ==
  IF op \in {"startClientCacheCleanup", "stopClientCacheCleanup"}
  THEN "client" ELSE "session"

C32_Step ==
  lastCall'.op \in TimerOps =>
    LET r == C32_Reaper(lastCall'.op)
        start == lastCall'.op \in {"startClientCacheCleanup", "startSessionCacheCleanup"}
        active == IntervalActive(timers, r)
    IN /\ start /\ active => timers' = timers
       /\ ~start /\ ~active => timers' = timers
       /\ start /\ ~active =>
            /\ Cardinality(C32_IntervalsOf(timers', r)) = 1
            /\ C32_IntervalsOf(timers', r) \cap timers.intervals = {}
       /\ ~start /\ active => C32_IntervalsOf(timers', r) = {}
       /\ \A o \in Reapers \ {r} :
            /\ timers'[o] = timers[o]
            /\ C32_IntervalsOf(timers', o) = C32_IntervalsOf(timers, o)

C32_TimersIdempotent == []C32_AtMostOne /\ [][C32_Step]_vars

\* The client reaper, stopped and started again after setup, has just been
\* started once more while active; the session reaper was never touched
C32_Witness ==
  /\ lastCall.op = "startClientCacheCleanup"
  /\ ~lastCall.result
  /\ timers.client = 3
  /\ timers.session = 2

\* C33: cleanupAllClients calls logout on the client of every entry of
\* clientCache, also on those that follow an entry whose logout throws,
\* returns without throwing, and leaves clientCache empty; it touches nothing
\* else (attempts that are not cached, authPromises, the registry).
C33_Step ==
  lastCall'.op = "cleanupAllClients" =>
    /\ lastCall'.result
    /\ \A k \in Keys : clientCache'[k] = 0
    /\ \A k \in Keys :
         clientCache[k] # 0 => attempts'[clientCache[k]].loggedOut
    /\ \A a \in AttemptIds :
         (\A k \in Keys : clientCache[k] # a) => attempts'[a] = attempts[a]
    /\ UNCHANGED <<authPromises, sessions, waiting, closed, startup>>

C33_CleanupAllClients == [][C33_Step]_vars

\* One call has logged out two cached clients, both of which threw
C33_Witness ==
  /\ lastCall.op = "cleanupAllClients"
  /\ lastCall.result
  /\ lastCall.errors = 2
  /\ Cardinality({a \in AttemptIds : attempts[a].loggedOut}) = 2
  /\ \A k \in Keys : clientCache[k] = 0

\* C34: the client of a valid session has not been logged out: for every
\* session id for which hasSession is true, logout has not been called on the
\* client its sessionData holds.
C34_ValidSessionHasLiveClient ==
  \A s \in SessionIds :
    hasSession(sessions, s, clock) =>
      ~attempts[sessions[s].sessionData].loggedOut

\* C35: the entry authenticateHttpRequest returns to an initialize request
\* holds a client on which logout has not been called: no session is created
\* with the client of an entry that an eviction has logged out.
C35_Step ==
  \A s \in SessionIds :
    CreatedNow(s) => ~attempts'[sessions'[s].sessionData].loggedOut

C35_NeverReturnsLoggedOut == [][C35_Step]_vars

\* C36: every session in the registry was created by an initialize request
\* whose authentication succeeded, and holds the entry that authentication
\* returned for the cache key of the request's own credentials; a request
\* whose authentication fails creates no session, closes no transport and
\* leaves the registry as it was.
C36_Registry ==
  \A s \in SessionIds :
    sessions[s] # NoSession =>
      /\ s <= initCount
      /\ sessions[s].transport = s
      /\ sessions[s].sessionData \in AttemptIds
      /\ attempts[sessions[s].sessionData].state = "fulfilled"

\* The step is the end of an authentication that failed
C36_FailedNow ==
  \/ \E a \in AttemptIds : IsPending(a) /\ attempts'[a].state = "rejected"
  \/ /\ lastResponse' # lastResponse
     /\ lastResponse'.branch = "initialize"
     /\ lastResponse'.status = 401

C36_Step ==
  /\ \A s \in SessionIds :
       CreatedNow(s) =>
         LET a == sessions'[s].sessionData IN
         \/ \* the request was answered in the step it arrived in
            /\ s = initCount'
            /\ initCount' = initCount + 1
            /\ lastResponse' = Response("initialize", 200, a, lastResponse'.hdr)
            /\ HeaderAccepted(lastResponse'.hdr)
            /\ attempts'[a].key = CacheKeyOf(lastResponse'.hdr)
         \/ \* the request was awaiting the authentication that succeeded now
            \E w \in waiting :
              /\ w.id = s /\ w.attempt = a
              /\ IsPending(a) /\ attempts'[a].state = "fulfilled"
              /\ attempts[a].key = CacheKeyOf(w.hdr)
  /\ C36_FailedNow => sessions' = sessions /\ closed' = closed

C36_SessionsFromAuthentication == []C36_Registry /\ [][C36_Step]_vars

\* A login has just been rejected, its request answered 401, while the
\* registry holds the session of a request that was authenticated
C36_Witness ==
  /\ lastResponse.status = 401
  /\ lastResponse.attempt # NoAttempt
  /\ attempts[lastResponse.attempt].state = "rejected"
  /\ \E s \in SessionIds : sessions[s] # NoSession

\* C37: a failed first authentication is memoized.  Once
\* authenticationPromise is rejected it stays the same rejected promise, no
\* login is started again, and every later getGlobalSunsamaClient call fails
\* with the error of that promise.
C37_Step ==
  authenticationPromise.state = "rejected" =>
    /\ authenticationPromise' = authenticationPromise
    /\ envLogins' = envLogins
    /\ globalWaiters' = globalWaiters
    /\ lastCall'.op = "getGlobalSunsamaClient" =>
         /\ ~lastCall'.result
         /\ lastResolve' = Resolved("none", "error", 0)

C37_Rejected ==
  /\ authenticationPromise.state = "rejected" /\ globalWaiters = {} =>
       lastResolve.out # "global"
  /\ lastResolve.out = "error" => authenticationPromise.state = "rejected"

C37_FailureMemoized == []C37_Rejected /\ [][C37_Step]_vars

\* Single-tenant mode: the login of the first call was rejected, and a later
\* call, which created no promise, has just failed
C37_Witness ==
  /\ transportType = "stdio"
  /\ authenticationPromise.state = "rejected"
  /\ authenticationPromise.client # 0
  /\ lastCall.op = "getGlobalSunsamaClient"
  /\ ~lastCall.result
  /\ lastResolve = Resolved("none", "error", 0)

\* C38: when hasSession(sessionId) is true in the POST handler, the
\* getTransport and getSessionData that follow return the transport and the
\* data of that session, also when the clock advances between the calls, and
\* the request is never answered 401: it is served, or answered 404 as
\* expired.
C38_Step ==
  (lastCall'.op = "POST" /\ lastCall'.wasValid) =>
    LET session == sessions[lastCall'.id] IN
    /\ \/ /\ lastCall'.result
          /\ lastCall'.transport = session.transport
          /\ lastCall'.sessionData = session.sessionData
          /\ lastResponse'.status = 200
       \/ lastResponse'.status = 404
    /\ lastResponse'.status # 401
    /\ ErrorMessage(lastResponse') # "Authentication failed"

C38_LookupsAgreeWithHasSession == [][C38_Step]_vars

====
